---- MODULE Spec2Model ----
(***************************************************************************)
(* NetSpeed Pro (src/netspeed_pro.py): the sampler thread measure_speeds,  *)
(* the usage aggregator it updates, the rate deques filled by the Tk       *)
(* refresh step update_labels, and the CSV persistence of the daily and    *)
(* hourly totals.                                                          *)
(*                                                                         *)
(* Threads: the sampler (measure_speeds, daemon thread), the Tk main loop  *)
(* (update_labels, set_adapter, the interval controls, each callback       *)
(* atomic with respect to the other callbacks) and the tray thread, which  *)
(* runs clean_exit.  The sampler and clean_exit are split into steps at    *)
(* the points where the other threads can observe or change shared state.  *)
(*                                                                         *)
(* Numbers: Python floats are modelled as exact rationals [num, den].      *)
(* Every interval the model offers is a multiple of 1/8 s or a value whose *)
(* product with the small byte counts used here truncates as the exact     *)
(* rational does, so int(...) is TruncDiv on the rational.                 *)
(***************************************************************************)
EXTENDS Integers, Sequences, FiniteSets, TLC

(* ------------------------------ bounds --------------------------------- *)

\* largest value of a cumulative OS byte counter the environment reports
MaxCounter == 2
\* number of sampler ticks (counter reads in the loop) explored
MaxTicks == 2
\* the clock runs over days 0..MaxDay
MaxDay == 1
\* the clock runs over hours 0..MaxHour of each day
MaxHour == 1
\* number of environment and user events in a run: the clock seen at a new
\* hour or day, another adapter selected, the interval changed, a failed
\* write, a request to exit
MaxEvents == 2

(* -------------------------- program constants -------------------------- *)

DequeMaxLen == 50
DefaultInterval == 1000
MinInterval == 100
MaxInterval == 5000
NumHours == 24
KB == 1024
MsPerSecond == 1000

Hours == 0 .. (NumHours - 1)

\* names offered by the adapter combobox; "eth0" may be absent from the
\* per-adapter table at any read
AdapterNames == {"All", "eth0"}
Nics == {"eth0"}

\* values the interval slider and the interval entry can deliver
IntervalChoices == {500, 1000}

(* ------------------------------- text ---------------------------------- *)
(* CSV fields are text: sequences of one-character strings.                *)

DigitChar == <<"0", "1", "2", "3", "4", "5", "6", "7", "8", "9">>

DigitSet == {DigitChar[i] : i \in 1..10}

DigitVal(c) == (CHOOSE i \in 1..10 : DigitChar[i] = c) - 1

RECURSIVE NatToStr(_)
\* str(n) for n >= 0
NatToStr(n) ==
    IF n < 10 THEN <<DigitChar[n + 1]>>
    ELSE NatToStr(n \div 10) \o <<DigitChar[(n % 10) + 1]>>

\* str(n) for a Python int
IntToStr(n) == IF n < 0 THEN <<"-">> \o NatToStr(-n) ELSE NatToStr(n)

IsDigits(s) == Len(s) > 0 /\ \A i \in 1..Len(s) : s[i] \in DigitSet

RECURSIVE DigitsToNat(_)
DigitsToNat(s) ==
    IF Len(s) = 0 THEN 0
    ELSE DigitsToNat(SubSeq(s, 1, Len(s) - 1)) * 10 + DigitVal(s[Len(s)])

\* a parse result: the value, or ok = FALSE when int(...) or strptime(...)
\* raised ValueError
Parsed(v) == [ok |-> TRUE, val |-> v]

Bad == [ok |-> FALSE, val |-> 0]

\* int(s) for a text field: an optional sign and decimal digits
StrToInt(s) ==
    IF IsDigits(s) THEN Parsed(DigitsToNat(s))
    ELSE IF Len(s) > 1 /\ s[1] = "-" /\ IsDigits(Tail(s))
         THEN Parsed(-DigitsToNat(Tail(s)))
    ELSE IF Len(s) > 1 /\ s[1] = "+" /\ IsDigits(Tail(s))
         THEN Parsed(DigitsToNat(Tail(s)))
    ELSE Bad

\* zero-padded decimal of width w
RECURSIVE Pad(_, _)
Pad(s, w) == IF Len(s) >= w THEN s ELSE Pad(<<"0">> \o s, w)

(* ------------------------------ dates ---------------------------------- *)
(* A datetime.date is a day index: day 0 is 2025-12-31, day 1 is           *)
(* 2026-01-01, so the rollover the model explores crosses a month and a    *)
(* year.  Valid dates outside December 2025 and January 2026 parse to      *)
(* OtherDate, a day no clock value of the model equals.                    *)

OtherDate == Parsed(-1000)

YMD(day) ==
    IF day <= 0 THEN [y |-> 2025, m |-> 12, d |-> 31 + day]
    ELSE [y |-> 2026, m |-> 1, d |-> day]

\* date.strftime('%Y-%m-%d')
DateToStr(day) ==
    LET c == YMD(day)
    IN  Pad(NatToStr(c.y), 4) \o <<"-">> \o Pad(NatToStr(c.m), 2)
            \o <<"-">> \o Pad(NatToStr(c.d), 2)

\* positions of the "-" separators of a text
Dashes(s) == {i \in 1..Len(s) : s[i] = "-"}

\* datetime.strptime(s, '%Y-%m-%d').date(): four year digits, one or two
\* month and day digits, a date of the calendar
StrToDate(s) ==
    IF Cardinality(Dashes(s)) # 2 THEN Bad
    ELSE
      LET i  == CHOOSE k \in Dashes(s) : \A j \in Dashes(s) : k <= j
          j  == CHOOSE k \in Dashes(s) : k # i
          ys == SubSeq(s, 1, i - 1)
          ms == SubSeq(s, i + 1, j - 1)
          ds == SubSeq(s, j + 1, Len(s))
      IN  IF ~(IsDigits(ys) /\ Len(ys) = 4 /\ IsDigits(ms) /\ Len(ms) <= 2
                 /\ IsDigits(ds) /\ Len(ds) <= 2) THEN Bad
          ELSE
            LET y == DigitsToNat(ys)
                m == DigitsToNat(ms)
                d == DigitsToNat(ds)
            IN  IF ~(y >= 1 /\ m \in 1..12 /\ d \in 1..31) THEN Bad
                ELSE IF y = 2025 /\ m = 12 THEN Parsed(d - 31)
                ELSE IF y = 2026 /\ m = 1 THEN Parsed(d)
                ELSE OtherDate

(* ----------------------------- rationals ------------------------------- *)

Rat(n, d) == [num |-> n, den |-> d]

RatMul(a, b) == [num |-> a.num * b.num, den |-> a.den * b.den]

RatMulInt(a, k) == [num |-> a.num * k, den |-> a.den]

RatDivInt(a, k) == [num |-> a.num, den |-> a.den * k]

\* a / b, b > 0
RatDiv(a, b) == [num |-> a.num * b.den, den |-> a.den * b.num]

RatEq(a, b) == a.num * b.den = b.num * a.den

RatGeq0(a) == a.num >= 0

\* division truncating toward zero, d > 0
TruncDiv(n, d) == IF n >= 0 THEN n \div d ELSE -((-n) \div d)

\* int(x) of a float x
IntOf(a) == TruncDiv(a.num, a.den)

(* ---------------------------- persistence ------------------------------ *)
(* A CSV file either does not exist or holds a sequence of data rows (the  *)
(* header row is not part of the sequence); each field of a row is text.   *)

Missing == [exists |-> FALSE, rows |-> <<>>]

File(rows) == [exists |-> TRUE, rows |-> rows]

\* how a "with open(path, 'w')" block can end: written and closed; open
\* raised (file untouched); a write or the close raised after open truncated
\* the file.  Every exception is caught by the caller's except clause.
WriteOutcomes == {"ok", "open_fail", "write_fail"}

\* WriteFile with the file opened for appending
WriteFileAppending(old, rows, outcome) ==
    CASE outcome = "ok" -> File(old.rows \o rows)
      [] outcome = "open_fail" -> old
      [] outcome = "write_fail" -> old

WriteFile(old, rows, outcome) ==
    CASE outcome = "ok" -> File(rows)
      [] outcome = "open_fail" -> old
      [] outcome = "write_fail" -> File(<<>>)

\* how reading a file can end; a file os.path.exists does not find is not
\* opened
ReadOutcomesOf(file) == IF file.exists THEN {"ok", "io_error"} ELSE {"none"}

\* DailyRow with the two byte columns exchanged
DailyRowSwapped(day, down, up) ==
    [Date |-> DateToStr(day),
     DownloadBytes |-> IntToStr(up),
     UploadBytes |-> IntToStr(down)]

\* the row save_daily_data writes
DailyRow(day, down, up) ==
    [Date |-> DateToStr(day),
     DownloadBytes |-> IntToStr(down),
     UploadBytes |-> IntToStr(up)]

\* data_usage.csv after save_daily_data
SaveDailyFile(old, day, down, up, outcome) ==
    WriteFile(old, <<DailyRow(day, down, up)>>, outcome)

\* defaultdict(lambda: {'download': 0, 'upload': 0}) with no key set: every
\* bucket reads as zero
EmptyHourly == [h \in Hours |-> [download |-> 0, upload |-> 0]]

\* the 24 rows save_hourly_data writes
HourlyRows(hd) ==
    [i \in 1..NumHours |->
        [Hour |-> IntToStr(i - 1),
         DownloadBytes |-> IntToStr(hd[i - 1].download),
         UploadBytes |-> IntToStr(hd[i - 1].upload)]]

\* hourly_usage.csv after save_hourly_data
SaveHourlyFile(old, hd, outcome) == WriteFile(old, HourlyRows(hd), outcome)

NotFound == [found |-> FALSE, down |-> 0, up |-> 0]

RECURSIVE ScanDailySkippingBadRows(_, _)
\* ScanDaily with the try inside the loop: a row that raises is skipped
ScanDailySkippingBadRows(rows, today) ==
    IF rows = <<>> THEN NotFound
    ELSE
      LET row == Head(rows)
          file_date == StrToDate(row.Date)
          d == StrToInt(row.DownloadBytes)
          u == StrToInt(row.UploadBytes)
      IN  IF file_date.ok /\ file_date.val = today /\ d.ok /\ u.ok
          THEN [found |-> TRUE, down |-> d.val, up |-> u.val]
          ELSE ScanDailySkippingBadRows(Tail(rows), today)

RECURSIVE ScanDaily(_, _)
\* the for loop of load_daily_data: the first row dated today is returned;
\* a row that raises ends the loop in the except clause
ScanDaily(rows, today) ==
    IF rows = <<>> THEN NotFound
    ELSE
      LET row == Head(rows)
          file_date == StrToDate(row.Date)
      IN  IF ~file_date.ok THEN NotFound
          ELSE IF file_date.val = today THEN
            LET d == StrToInt(row.DownloadBytes)
                u == StrToInt(row.UploadBytes)
            IN  IF ~d.ok \/ ~u.ok THEN NotFound
                ELSE [found |-> TRUE, down |-> d.val, up |-> u.val]
          ELSE ScanDaily(Tail(rows), today)

RECURSIVE LoadHourlyRows(_, _)
\* the for loop of load_hourly_data: rows are stored until one raises
LoadHourlyRows(rows, hd) ==
    IF rows = <<>> THEN hd
    ELSE
      LET row == Head(rows)
          hour == StrToInt(row.Hour)
          download_bytes == StrToInt(row.DownloadBytes)
          upload_bytes == StrToInt(row.UploadBytes)
      IN  IF ~hour.ok \/ ~download_bytes.ok \/ ~upload_bytes.ok THEN hd
          ELSE IF hour.val \notin Hours THEN LoadHourlyRows(Tail(rows), hd)
          ELSE LoadHourlyRows(Tail(rows),
                 [hd EXCEPT ![hour.val] = [download |-> download_bytes.val,
                                           upload |-> upload_bytes.val]])

\* load_hourly_data on the table hd
LoadHourlyData(hfile, hd, outcome) ==
    IF ~hfile.exists \/ outcome # "ok" THEN hd
    ELSE LoadHourlyRows(hfile.rows, hd)

\* load_daily_data: the aggregator state it leaves
LoadDailyData(dfile, hfile, today, hd, outcome, houtcome) ==
    LET r == IF ~dfile.exists \/ outcome # "ok" THEN NotFound
             ELSE ScanDaily(dfile.rows, today)
    IN  IF r.found
        THEN [down |-> r.down, up |-> r.up, day |-> today, hourly |-> hd]
        ELSE [down |-> 0, up |-> 0, day |-> today,
              hourly |-> LoadHourlyData(hfile, EmptyHourly, houtcome)]

(* ------------------------------- state --------------------------------- *)

VARIABLES
    clock_day,              \* datetime.date.today(), a day index
    clock_hour,             \* datetime.datetime.now().hour
    daily_file,             \* data_usage.csv
    hourly_file,            \* hourly_usage.csv
    phase,                  \* "off" (constructed, not loaded), "on", "exited"
    pc_exit,                \* position of the tray thread in clean_exit
    running,                \* self.running
    selected_adapter,       \* self.selected_adapter
    update_interval,        \* self.update_interval, ms
    speed_queue,            \* self.speed_queue
    download_data,          \* self.download_data, deque(maxlen=50)
    upload_data,            \* self.upload_data, deque(maxlen=50)
    daily_download_bytes,   \* self.daily_download_bytes
    daily_upload_bytes,     \* self.daily_upload_bytes
    last_data_update_day,   \* self.last_data_update_day
    hourly_data,            \* self.hourly_data
    pc_s,                   \* position of the sampler thread in measure_speeds
    old_stats,              \* local old_stats, with the source it was read from
    down_kbps,              \* local down_kbps
    up_kbps,                \* local up_kbps
    current_day,            \* local current_day
    current_hour,           \* local current_hour
    ticks,                  \* history: counter reads made by the loop
    events,                 \* history: environment and user events so far
    sel_epoch,              \* history: changes of the selected adapter
    tick_epoch,             \* history: sel_epoch at the current tick's read
    tick_delta,             \* history: the counter differences of the tick
    load_outcome,           \* history: how the reads of Startup ended
    write_log               \* history: every save attempted, in order

vars == <<clock_day, clock_hour, daily_file, hourly_file, phase, pc_exit,
          running, selected_adapter, update_interval, speed_queue,
          download_data, upload_data, daily_download_bytes,
          daily_upload_bytes, last_data_update_day, hourly_data, pc_s,
          old_stats, down_kbps, up_kbps, current_day, current_hour, ticks,
          events, sel_epoch, tick_epoch, tick_delta, load_outcome, write_log>>

clockVars == <<clock_day, clock_hour>>
fileVars == <<daily_file, hourly_file, write_log>>
uiVars == <<selected_adapter, update_interval, download_data, upload_data,
            sel_epoch>>
aggVars == <<daily_download_bytes, daily_upload_bytes, last_data_update_day,
             hourly_data>>
localVars == <<old_stats, down_kbps, up_kbps, current_day, current_hour,
               tick_epoch, tick_delta>>

\* what psutil.net_io_counters can report: pairs of cumulative counters up
\* to MaxCounter, thinned to those whose sum is a multiple of 3, which keeps
\* equal, rising and falling pairs in both directions
Snapshots ==
    {c \in [bytes_recv : 0..MaxCounter, bytes_sent : 0..MaxCounter] :
        (c.bytes_recv + c.bytes_sent) % 3 = 0}

NoRate == Rat(0, KB)

NoDelta == [recv |-> 0, sent |-> 0]

(* --------------------------- initial states ---------------------------- *)

\* a populated hourly table left by an earlier run
StaleHourly ==
    [EmptyHourly EXCEPT ![0] = [download |-> 2, upload |-> 1]]

\* a session of Spec starts with no file on disk
StartFiles == {<<Missing, Missing>>}

\* the state after setup_variables, before load_daily_data
InitWith(days, files) ==
    /\ clock_day \in days
    /\ clock_hour = 0
    /\ \E f \in files : daily_file = f[1] /\ hourly_file = f[2]
    /\ phase = "off"
    /\ pc_exit = "idle"
    /\ running = TRUE
    /\ selected_adapter = "All"
    /\ update_interval = DefaultInterval
    /\ speed_queue = <<>>
    /\ download_data = <<>>
    /\ upload_data = <<>>
    /\ daily_download_bytes = 0
    /\ daily_upload_bytes = 0
    /\ last_data_update_day = clock_day
    /\ hourly_data = EmptyHourly
    /\ pc_s = "off"
    /\ old_stats = [src |-> "All", miss |-> FALSE, bytes_recv |-> 0,
                    bytes_sent |-> 0]
    /\ down_kbps = NoRate
    /\ up_kbps = NoRate
    /\ current_day = 0
    /\ current_hour = 0
    /\ ticks = 0
    /\ events = 0
    /\ sel_epoch = 0
    /\ tick_epoch = 0
    /\ tick_delta = NoDelta
    /\ load_outcome = <<"none", "none">>
    /\ write_log = <<>>

Init == InitWith({0}, StartFiles)

(* ------------------------------ startup -------------------------------- *)

\* __init__ from load_daily_data on: the totals are loaded and the sampler
\* thread is started
Startup ==
    /\ phase = "off"
    /\ \E outcome \in ReadOutcomesOf(daily_file),
          houtcome \in ReadOutcomesOf(hourly_file) :
        LET r == LoadDailyData(daily_file, hourly_file, clock_day,
                               hourly_data, outcome, houtcome)
        IN  /\ daily_download_bytes' = r.down
            /\ daily_upload_bytes' = r.up
            /\ last_data_update_day' = r.day
            /\ hourly_data' = r.hourly
            /\ load_outcome' = <<outcome, houtcome>>
    /\ phase' = "on"
    /\ pc_s' = "init"
    /\ UNCHANGED <<clockVars, fileVars, pc_exit, running, uiVars, speed_queue,
                   localVars, ticks, events>>

(* ------------------------------ sampler -------------------------------- *)

\* CounterSource without the except clause: the absent adapter is the source
CounterSourceNoFallback(adapter, present) ==
    IF adapter = "All" THEN "All" ELSE adapter

\* the lookup of the selected adapter in the per-adapter table raises
\* KeyError
KeyErrorRaised(adapter, present) ==
    adapter # "All" /\ adapter \notin present

\* the counters a read takes: the aggregate for "All", the adapter's own
\* entry when the per-adapter table has it, the aggregate on KeyError
CounterSource(adapter, present) ==
    IF adapter = "All" THEN "All"
    ELSE IF adapter \in present THEN adapter
    ELSE "All"

\* (new - old) / 1024
KbPerTick(new_bytes, old_bytes) == Rat(new_bytes - old_bytes, KB)

\* self.update_interval / 1000.0
IntervalSeconds(ms) == Rat(ms, MsPerSecond)

\* BytesInterval with the rate not turned back into bytes
BytesIntervalOfKb(kbps, interval_seconds) ==
    IntOf(RatMul(kbps, interval_seconds))

\* int(kbps * 1024 * interval_seconds)
BytesInterval(kbps, interval_seconds) ==
    IntOf(RatMul(RatMulInt(kbps, KB), interval_seconds))

\* the baseline read before the loop
SamplerBaseline ==
    /\ phase = "on"
    /\ pc_s = "init"
    /\ \E present \in SUBSET Nics, snap \in Snapshots :
          old_stats' = [src |-> CounterSource(selected_adapter, present),
                        miss |-> KeyErrorRaised(selected_adapter, present),
                        bytes_recv |-> snap.bytes_recv,
                        bytes_sent |-> snap.bytes_sent]
    /\ pc_s' = "loop"
    /\ UNCHANGED <<clockVars, fileVars, load_outcome, phase, pc_exit, running,
                   uiVars, speed_queue, aggVars, down_kbps, up_kbps,
                   current_day, current_hour, tick_epoch, tick_delta, ticks,
                   events>>

\* psutil.net_io_counters raises something other than KeyError: nothing in
\* measure_speeds catches it, and the thread ends
SamplerReadError ==
    /\ phase = "on"
    /\ pc_s \in {"init", "read"}
    /\ pc_s' = "dead"
    /\ UNCHANGED <<clockVars, fileVars, load_outcome, phase, pc_exit, running,
                   uiVars, speed_queue, aggVars, localVars, ticks, events>>

\* SamplerSleep as "while True"
SamplerSleepIgnoringFlag ==
    /\ phase = "on"
    /\ pc_s = "loop"
    /\ ticks < MaxTicks
    /\ pc_s' = "read"
    /\ ticks' = ticks + 1
    /\ UNCHANGED <<clockVars, fileVars, load_outcome, phase, pc_exit, running,
                   uiVars, speed_queue, aggVars, localVars, events>>

\* while self.running: time.sleep(self.update_interval / 1000)
SamplerSleep ==
    /\ phase = "on"
    /\ pc_s = "loop"
    /\ running
    /\ ticks < MaxTicks
    /\ pc_s' = "read"
    /\ ticks' = ticks + 1
    /\ UNCHANGED <<clockVars, fileVars, load_outcome, phase, pc_exit, running,
                   uiVars, speed_queue, aggVars, localVars, events>>

\* while self.running: the flag is clear and the function returns
SamplerStop ==
    /\ phase = "on"
    /\ pc_s = "loop"
    /\ ~running
    /\ pc_s' = "done"
    /\ UNCHANGED <<clockVars, fileVars, load_outcome, phase, pc_exit, running,
                   uiVars, speed_queue, aggVars, localVars, ticks, events>>

\* an environment or user event happens (counted) or does not
Event(happens) ==
    /\ happens => events < MaxEvents
    /\ events' = IF happens THEN events + 1 ELSE events

\* the times datetime.now() can return after (day, hour) was the time
Later(day, hour) ==
    {t \in (0..MaxDay) \X (0..MaxHour) :
        t[1] > day \/ (t[1] = day /\ t[2] >= hour)}

\* the counter read, the two differences, old_stats = new_stats, the
\* reading of the clock after the sleep and the comparison of the day
SamplerRead ==
    /\ phase = "on"
    /\ pc_s = "read"
    /\ \E now \in Later(clock_day, clock_hour) :
          /\ Event(now # <<clock_day, clock_hour>>)
          /\ clock_day' = now[1]
          /\ clock_hour' = now[2]
          /\ current_day' = now[1]
          /\ current_hour' = now[2]
          /\ pc_s' = IF now[1] # last_data_update_day THEN "rollover"
                     ELSE "accumulate"
    /\ \E present \in SUBSET Nics, new_stats \in Snapshots :
          /\ tick_delta' = [recv |-> new_stats.bytes_recv - old_stats.bytes_recv,
                            sent |-> new_stats.bytes_sent - old_stats.bytes_sent]
          /\ down_kbps' = KbPerTick(new_stats.bytes_recv, old_stats.bytes_recv)
          /\ up_kbps' = KbPerTick(new_stats.bytes_sent, old_stats.bytes_sent)
          /\ old_stats' = [src |-> CounterSource(selected_adapter, present),
                           miss |-> KeyErrorRaised(selected_adapter, present),
                           bytes_recv |-> new_stats.bytes_recv,
                           bytes_sent |-> new_stats.bytes_sent]
    /\ tick_epoch' = sel_epoch
    /\ UNCHANGED <<fileVars, load_outcome, phase, pc_exit, running, uiVars,
                   speed_queue, aggVars, ticks>>

\* a save attempt as the history records it, with the tick it fell in and
\* the day and totals in memory at that moment
LogEntry(by, file, rows, outcome) ==
    [by |-> by, file |-> file, rows |-> rows, outcome |-> outcome,
     tick |-> ticks,
     mem |-> [day |-> last_data_update_day, down |-> daily_download_bytes,
              up |-> daily_upload_bytes]]

\* save_daily_data, called by thread `by`
SaveDailyData(by) ==
    \E outcome \in WriteOutcomes :
        /\ Event(outcome # "ok")
        /\ daily_file' = SaveDailyFile(daily_file, last_data_update_day,
                             daily_download_bytes, daily_upload_bytes, outcome)
        /\ write_log' = Append(write_log,
              LogEntry(by, "daily",
                       <<DailyRow(last_data_update_day, daily_download_bytes,
                                  daily_upload_bytes)>>, outcome))
        /\ UNCHANGED hourly_file

\* save_hourly_data, called by thread `by`
SaveHourlyData(by) ==
    \E outcome \in WriteOutcomes :
        /\ Event(outcome # "ok")
        /\ hourly_file' = SaveHourlyFile(hourly_file, hourly_data, outcome)
        /\ write_log' = Append(write_log,
              LogEntry(by, "hourly", HourlyRows(hourly_data), outcome))
        /\ UNCHANGED daily_file

\* SamplerRolloverSave with the totals zeroed before the save
SamplerRolloverSaveAfterReset ==
    /\ phase = "on"
    /\ pc_s = "rollover"
    /\ daily_download_bytes' = 0
    /\ daily_upload_bytes' = 0
    /\ \E outcome \in WriteOutcomes :
          /\ Event(outcome # "ok")
          /\ daily_file' = SaveDailyFile(daily_file, last_data_update_day,
                                         0, 0, outcome)
          /\ write_log' = Append(write_log,
                [LogEntry("sampler", "daily",
                          <<DailyRow(last_data_update_day, 0, 0)>>, outcome)
                    EXCEPT !.mem.down = 0, !.mem.up = 0])
    /\ pc_s' = "reset_totals"
    /\ UNCHANGED <<clockVars, hourly_file, load_outcome, phase, pc_exit,
                   running, uiVars, speed_queue, last_data_update_day,
                   hourly_data, localVars, ticks>>

\* the day has changed: self.save_daily_data()
SamplerRolloverSave ==
    /\ phase = "on"
    /\ pc_s = "rollover"
    /\ SaveDailyData("sampler")
    /\ pc_s' = "reset_totals"
    /\ UNCHANGED <<clockVars, load_outcome, phase, pc_exit, running, uiVars,
                   speed_queue, aggVars, localVars, ticks>>

\* self.daily_download_bytes = 0; self.daily_upload_bytes = 0
SamplerResetTotals ==
    /\ phase = "on"
    /\ pc_s = "reset_totals"
    /\ daily_download_bytes' = 0
    /\ daily_upload_bytes' = 0
    /\ pc_s' = "reset_day"
    /\ UNCHANGED <<clockVars, fileVars, load_outcome, phase, pc_exit, running,
                   uiVars, speed_queue, last_data_update_day, hourly_data,
                   localVars, ticks, events>>

\* SamplerResetDay without self.hourly_data.clear()
SamplerResetDayKeepingHours ==
    /\ phase = "on"
    /\ pc_s = "reset_day"
    /\ last_data_update_day' = current_day
    /\ pc_s' = "accumulate"
    /\ UNCHANGED <<clockVars, fileVars, load_outcome, phase, pc_exit, running,
                   uiVars, speed_queue, daily_download_bytes,
                   daily_upload_bytes, hourly_data, localVars, ticks, events>>

\* self.last_data_update_day = current_day; self.hourly_data.clear()
SamplerResetDay ==
    /\ phase = "on"
    /\ pc_s = "reset_day"
    /\ last_data_update_day' = current_day
    /\ hourly_data' = EmptyHourly
    /\ pc_s' = "accumulate"
    /\ UNCHANGED <<clockVars, fileVars, load_outcome, phase, pc_exit, running,
                   uiVars, speed_queue, daily_download_bytes,
                   daily_upload_bytes, localVars, ticks, events>>

\* the sample put on the queue, with the selection epoch of its read
Sample(down, up, epoch) == [down |-> down, up |-> up, epoch |-> epoch]

\* SamplerAccumulate with the bytes added to the bucket of hour 0
SamplerAccumulateFirstBucket ==
    /\ phase = "on"
    /\ pc_s = "accumulate"
    /\ LET interval_seconds == IntervalSeconds(update_interval)
           download_bytes_interval == BytesInterval(down_kbps, interval_seconds)
           upload_bytes_interval == BytesInterval(up_kbps, interval_seconds)
       IN  /\ daily_download_bytes' = daily_download_bytes + download_bytes_interval
           /\ daily_upload_bytes' = daily_upload_bytes + upload_bytes_interval
           /\ hourly_data' = [hourly_data EXCEPT
                 ![0] =
                    [download |-> @.download + download_bytes_interval,
                     upload |-> @.upload + upload_bytes_interval]]
    /\ speed_queue' = Append(speed_queue, Sample(down_kbps, up_kbps, tick_epoch))
    /\ down_kbps' = NoRate
    /\ up_kbps' = NoRate
    /\ tick_delta' = NoDelta
    /\ pc_s' = "loop"
    /\ UNCHANGED <<clockVars, fileVars, load_outcome, phase, pc_exit, running,
                   uiVars, last_data_update_day, old_stats, current_day,
                   current_hour, tick_epoch, ticks, events>>

\* the interval bytes are added to the daily totals and to the bucket of
\* current_hour, and the sample is put on the queue
SamplerAccumulate ==
    /\ phase = "on"
    /\ pc_s = "accumulate"
    /\ LET interval_seconds == IntervalSeconds(update_interval)
           download_bytes_interval == BytesInterval(down_kbps, interval_seconds)
           upload_bytes_interval == BytesInterval(up_kbps, interval_seconds)
       IN  /\ daily_download_bytes' = daily_download_bytes + download_bytes_interval
           /\ daily_upload_bytes' = daily_upload_bytes + upload_bytes_interval
           /\ hourly_data' = [hourly_data EXCEPT
                 ![current_hour] =
                    [download |-> @.download + download_bytes_interval,
                     upload |-> @.upload + upload_bytes_interval]]
    /\ speed_queue' = Append(speed_queue, Sample(down_kbps, up_kbps, tick_epoch))
    /\ down_kbps' = NoRate
    /\ up_kbps' = NoRate
    /\ tick_delta' = NoDelta
    /\ pc_s' = "loop"
    /\ UNCHANGED <<clockVars, fileVars, load_outcome, phase, pc_exit, running,
                   uiVars, last_data_update_day, old_stats, current_day,
                   current_hour, tick_epoch, ticks, events>>

Sampler ==
    \/ SamplerBaseline
    \/ SamplerReadError
    \/ SamplerSleep
    \/ SamplerStop
    \/ SamplerRead
    \/ SamplerRolloverSave
    \/ SamplerResetTotals
    \/ SamplerResetDay
    \/ SamplerAccumulate

(* ---------------------------- presentation ----------------------------- *)

\* deque.append on a deque with no maxlen
DequeAppendUnbounded(dq, x) == Append(dq, x)

\* deque.append on a deque of maxlen DequeMaxLen
DequeAppend(dq, x) ==
    IF Len(dq) >= DequeMaxLen THEN Append(Tail(dq), x) ELSE Append(dq, x)

\* the deque after each element of xs was appended in turn
DequeExtend(dq, xs) ==
    LET after[i \in 0..Len(xs)] ==
            IF i = 0 THEN dq ELSE DequeAppend(after[i - 1], xs[i])
    IN  after[Len(xs)]

\* an element of a rate deque: the rate, with the epoch of its sample
Point(kbps, epoch) == [kbps |-> kbps, epoch |-> epoch]

\* UpdateLabels with one get_nowait and no loop
UpdateLabelsOneSample ==
    /\ phase = "on"
    /\ download_data' = DequeExtend(download_data,
          [i \in 1..(IF speed_queue = <<>> THEN 0 ELSE 1) |->
              Point(speed_queue[i].down, speed_queue[i].epoch)])
    /\ upload_data' = DequeExtend(upload_data,
          [i \in 1..(IF speed_queue = <<>> THEN 0 ELSE 1) |->
              Point(speed_queue[i].up, speed_queue[i].epoch)])
    /\ speed_queue' = IF speed_queue = <<>> THEN <<>> ELSE Tail(speed_queue)
    /\ UNCHANGED <<clockVars, fileVars, load_outcome, phase, pc_exit, running,
                   selected_adapter, update_interval, sel_epoch, aggVars,
                   pc_s, localVars, ticks, events>>

\* update_labels: get_nowait until the queue is empty, each sample appended
\* to the two deques
UpdateLabels ==
    /\ phase = "on"
    /\ download_data' = DequeExtend(download_data,
          [i \in 1..Len(speed_queue) |->
              Point(speed_queue[i].down, speed_queue[i].epoch)])
    /\ upload_data' = DequeExtend(upload_data,
          [i \in 1..Len(speed_queue) |->
              Point(speed_queue[i].up, speed_queue[i].epoch)])
    /\ speed_queue' = <<>>
    /\ UNCHANGED <<clockVars, fileVars, load_outcome, phase, pc_exit, running,
                   selected_adapter, update_interval, sel_epoch, aggVars,
                   pc_s, localVars, ticks, events>>

\* SetAdapter starting the daily totals again for the new adapter
SetAdapterResettingTotals ==
    /\ phase = "on"
    /\ \E value \in AdapterNames :
          /\ Event(value # selected_adapter)
          /\ selected_adapter' = value
          /\ sel_epoch' = IF value # selected_adapter THEN sel_epoch + 1
                          ELSE sel_epoch
    /\ download_data' = <<>>
    /\ daily_download_bytes' = 0
    /\ daily_upload_bytes' = 0
    /\ upload_data' = <<>>
    /\ UNCHANGED <<clockVars, fileVars, load_outcome, phase, pc_exit, running,
                   update_interval, speed_queue, last_data_update_day,
                   hourly_data, pc_s, localVars, ticks>>

\* set_adapter(value), the definition in force (the later one in the class)
SetAdapter ==
    /\ phase = "on"
    /\ \E value \in AdapterNames :
          /\ Event(value # selected_adapter)
          /\ selected_adapter' = value
          /\ sel_epoch' = IF value # selected_adapter THEN sel_epoch + 1
                          ELSE sel_epoch
    /\ download_data' = <<>>
    /\ upload_data' = <<>>
    /\ UNCHANGED <<clockVars, fileVars, load_outcome, phase, pc_exit, running,
                   update_interval, speed_queue, aggVars, pc_s, localVars,
                   ticks>>

\* positions of the slider, whose range is 100..5000: whole numbers of
\* milliseconds and positions half a millisecond above them
SliderValues ==
    {Rat(v, 1) : v \in IntervalChoices}
        \cup {Rat(2 * v + 1, 2) : v \in IntervalChoices}

\* update_interval_value(value): int(float(value)) of the slider's position
UpdateIntervalValue ==
    /\ phase = "on"
    /\ \E value \in SliderValues :
          /\ Event(IntOf(value) # update_interval)
          /\ update_interval' = IntOf(value)
    /\ UNCHANGED <<clockVars, fileVars, load_outcome, phase, pc_exit, running,
                   selected_adapter, download_data, upload_data, sel_epoch,
                   speed_queue, aggVars, pc_s, localVars, ticks>>

\* texts typed into the interval entry: integers in range, the integers
\* next to the range, a negative one, a word and a number with a fraction
ValidEntryTexts == {IntToStr(v) : v \in IntervalChoices}

InvalidEntryTexts ==
    {IntToStr(MinInterval - 1), IntToStr(MaxInterval + 1),
     IntToStr(-DefaultInterval), <<"a", "b", "c">>,
     <<"5", "0", "0", ".", "5">>}

EntryTexts == ValidEntryTexts \cup InvalidEntryTexts

\* IntervalFromEntry with no check of the range
IntervalFromEntryAnyInteger(value_str, old) ==
    LET value == StrToInt(value_str)
    IN  IF value.ok THEN value.val ELSE old

\* the interval apply_interval_from_entry leaves for the entry text
IntervalFromEntry(value_str, old) ==
    LET value == StrToInt(value_str)
    IN  IF value.ok /\ MinInterval <= value.val /\ value.val <= MaxInterval
        THEN value.val
        ELSE old

\* apply_interval_from_entry
ApplyIntervalFromEntry ==
    /\ phase = "on"
    /\ \E value_str \in EntryTexts :
          /\ Event(IntervalFromEntry(value_str, update_interval) # update_interval)
          /\ update_interval' = IntervalFromEntry(value_str, update_interval)
    /\ UNCHANGED <<clockVars, fileVars, load_outcome, phase, pc_exit, running,
                   selected_adapter, download_data, upload_data, sel_epoch,
                   speed_queue, aggVars, pc_s, localVars, ticks>>

(* ------------------------------ shutdown ------------------------------- *)

\* CleanExitStop going to root.destroy() with no save
CleanExitStopThenDestroy ==
    /\ phase = "on"
    /\ pc_exit = "idle"
    /\ Event(TRUE)
    /\ running' = FALSE
    /\ pc_exit' = "destroy"
    /\ UNCHANGED <<clockVars, fileVars, load_outcome, phase, uiVars,
                   speed_queue, aggVars, pc_s, localVars, ticks>>

\* clean_exit: self.running = False; self.tray_icon.stop()
CleanExitStop ==
    /\ phase = "on"
    /\ pc_exit = "idle"
    /\ Event(TRUE)
    /\ running' = FALSE
    /\ pc_exit' = "save_daily"
    /\ UNCHANGED <<clockVars, fileVars, load_outcome, phase, uiVars,
                   speed_queue, aggVars, pc_s, localVars, ticks>>

\* clean_exit: self.save_daily_data()
CleanExitSaveDaily ==
    /\ phase = "on"
    /\ pc_exit = "save_daily"
    /\ SaveDailyData("exit")
    /\ pc_exit' = "save_hourly"
    /\ UNCHANGED <<clockVars, load_outcome, phase, running, uiVars,
                   speed_queue, aggVars, pc_s, localVars, ticks>>

\* clean_exit: self.save_hourly_data()
CleanExitSaveHourly ==
    /\ phase = "on"
    /\ pc_exit = "save_hourly"
    /\ SaveHourlyData("exit")
    /\ pc_exit' = "destroy"
    /\ UNCHANGED <<clockVars, load_outcome, phase, running, uiVars,
                   speed_queue, aggVars, pc_s, localVars, ticks>>

\* clean_exit: self.root.destroy(); os._exit(0): every thread ends
CleanExitTerminate ==
    /\ phase = "on"
    /\ pc_exit = "destroy"
    /\ phase' = "exited"
    /\ pc_exit' = "exited"
    /\ UNCHANGED <<clockVars, fileVars, load_outcome, running, uiVars,
                   speed_queue, aggVars, pc_s, localVars, ticks, events>>

CleanExit ==
    \/ CleanExitStop
    \/ CleanExitSaveDaily
    \/ CleanExitSaveHourly
    \/ CleanExitTerminate

(* ---------------------------- specification ---------------------------- *)

Next ==
    \/ Startup
    \/ Sampler
    \/ UpdateLabels
    \/ SetAdapter
    \/ UpdateIntervalValue
    \/ ApplyIntervalFromEntry
    \/ CleanExit

Spec == Init /\ [][Next]_vars

\* the sampler thread is scheduled as long as the process lives
SpecFair == Spec /\ WF_vars(Sampler)

(* ------------------- startup from arbitrary files ---------------------- *)

\* rows an earlier run, another program or a damaged disk can have left in
\* data_usage.csv: good rows for day 0, day 1 and the day before day 0, a
\* row with no date, rows dated day 0 with a damaged byte field, an older
\* row with damaged byte fields, a good row from another year
LoadRows ==
    {DailyRow(0, 2, 1), DailyRow(1, 3, 0), DailyRow(-1, 5, 5),
     [Date |-> <<"x">>, DownloadBytes |-> IntToStr(7),
      UploadBytes |-> IntToStr(7)],
     [Date |-> DateToStr(0), DownloadBytes |-> <<"x">>,
      UploadBytes |-> IntToStr(1)],
     [Date |-> DateToStr(0), DownloadBytes |-> IntToStr(2),
      UploadBytes |-> <<>>],
     [Date |-> DateToStr(-1), DownloadBytes |-> <<"x">>,
      UploadBytes |-> <<"x">>],
     [Date |-> <<"2", "0", "2", "4", "-", "0", "6", "-", "1", "5">>,
      DownloadBytes |-> IntToStr(4), UploadBytes |-> IntToStr(4)]}

\* number of data rows of the daily file a session starts from
MaxRows == 2

LoadDailyFiles ==
    {Missing} \cup
    {File(rows) : rows \in UNION {[1..k -> LoadRows] : k \in 0..MaxRows}}

\* an hourly file whose second row is damaged
DamagedHourlyRows ==
    <<[Hour |-> IntToStr(0), DownloadBytes |-> IntToStr(4),
       UploadBytes |-> IntToStr(4)],
      [Hour |-> IntToStr(1), DownloadBytes |-> <<"x">>,
       UploadBytes |-> IntToStr(1)],
      [Hour |-> IntToStr(2), DownloadBytes |-> IntToStr(9),
       UploadBytes |-> IntToStr(9)]>>

LoadHourlyFiles ==
    {Missing, File(<<>>), File(HourlyRows(StaleHourly)),
     File(DamagedHourlyRows)}

InitLoad == InitWith(0..MaxDay, LoadDailyFiles \X LoadHourlyFiles)

\* the program is started on arbitrary files; nothing else runs
SpecLoad == InitLoad /\ [][Startup]_vars

(* ----------------------- a long-running session ----------------------- *)

\* largest number of samples waiting in the queue for a refresh
MaxQueued == 3

\* the i-th sample of the session
NthSample(i) == Sample(Rat(i, KB), Rat(2 * i, KB), 0)

\* a session whose sampler has produced m + n samples since the adapter
\* was chosen: refreshes have appended the first m, up to the capacity, to
\* the deques, and the last n wait in the queue
InitBuffer ==
    /\ clock_day = 0
    /\ clock_hour = 0
    /\ daily_file = Missing
    /\ hourly_file = Missing
    /\ phase = "on"
    /\ pc_exit = "idle"
    /\ running = TRUE
    /\ selected_adapter = "All"
    /\ update_interval = DefaultInterval
    /\ \E m \in 0..DequeMaxLen, n \in 0..MaxQueued :
          /\ download_data = [i \in 1..m |-> Point(NthSample(i).down, 0)]
          /\ upload_data = [i \in 1..m |-> Point(NthSample(i).up, 0)]
          /\ speed_queue = [i \in 1..n |-> NthSample(m + i)]
          /\ ticks = m + n
    /\ daily_download_bytes = 0
    /\ daily_upload_bytes = 0
    /\ last_data_update_day = clock_day
    /\ hourly_data = EmptyHourly
    /\ pc_s = "loop"
    /\ old_stats = [src |-> "All", miss |-> FALSE, bytes_recv |-> 0,
                    bytes_sent |-> 0]
    /\ down_kbps = NoRate
    /\ up_kbps = NoRate
    /\ current_day = 0
    /\ current_hour = 0
    /\ events = 0
    /\ sel_epoch = 0
    /\ tick_epoch = 0
    /\ tick_delta = NoDelta
    /\ load_outcome = <<"none", "none">>
    /\ write_log = <<>>

\* the presentation side alone: refreshes and adapter changes
NextBuffer == UpdateLabels \/ SetAdapter

SpecBuffer == InitBuffer /\ [][NextBuffer]_vars

(* --------------------- sessions one after another ---------------------- *)

\* largest daily total a session of SpecRestart begins with
MaxTotal == 12

\* the totals a session of SpecRestart begins with: a third of the pairs
\* up to MaxTotal, of one and of two digits, equal and unequal
StartTotals ==
    {t \in (0..MaxTotal) \X (0..MaxTotal) : (t[1] + 2 * t[2]) % 3 = 2}

\* a daily file left by the day before day 0
OldDailyFile == File(<<DailyRow(-1, 5, 5)>>)

\* a daily file with a record of that day and a record of day 0
TwoDayFile == File(<<DailyRow(-1, 5, 5), DailyRow(0, 2, 1)>>)

\* a session between two ticks, with any totals up to MaxTotal, the last
\* tick on the clock's day or on an earlier one
InitRestart ==
    /\ clock_day \in 0..MaxDay
    /\ clock_hour = 0
    /\ daily_file \in {Missing, OldDailyFile, TwoDayFile}
    /\ hourly_file = Missing
    /\ phase = "on"
    /\ pc_exit = "idle"
    /\ running = TRUE
    /\ selected_adapter = "All"
    /\ update_interval = DefaultInterval
    /\ speed_queue = <<>>
    /\ download_data = <<>>
    /\ upload_data = <<>>
    /\ \E t \in StartTotals :
          daily_download_bytes = t[1] /\ daily_upload_bytes = t[2]
    /\ last_data_update_day \in 0..clock_day
    /\ hourly_data \in {EmptyHourly, StaleHourly}
    /\ pc_s = "loop"
    /\ old_stats = [src |-> "All", miss |-> FALSE, bytes_recv |-> 0,
                    bytes_sent |-> 0]
    /\ down_kbps = NoRate
    /\ up_kbps = NoRate
    /\ current_day = last_data_update_day
    /\ current_hour = 0
    /\ ticks = 1
    /\ events = 0
    /\ sel_epoch = 0
    /\ tick_epoch = 0
    /\ tick_delta = NoDelta
    /\ load_outcome = <<"none", "none">>
    /\ write_log = <<>>

\* the program is started again after it exited: setup_variables in a new
\* process, the files as the old one left them, the clock where it now is
Restart ==
    /\ phase = "exited"
    /\ Event(TRUE)
    /\ \E now \in Later(clock_day, clock_hour) :
          /\ clock_day' = now[1]
          /\ clock_hour' = now[2]
          /\ last_data_update_day' = now[1]
    /\ phase' = "off"
    /\ pc_exit' = "idle"
    /\ running' = TRUE
    /\ selected_adapter' = "All"
    /\ update_interval' = DefaultInterval
    /\ speed_queue' = <<>>
    /\ download_data' = <<>>
    /\ upload_data' = <<>>
    /\ daily_download_bytes' = 0
    /\ daily_upload_bytes' = 0
    /\ hourly_data' = EmptyHourly
    /\ pc_s' = "off"
    /\ old_stats' = [src |-> "All", miss |-> FALSE, bytes_recv |-> 0,
                     bytes_sent |-> 0]
    /\ down_kbps' = NoRate
    /\ up_kbps' = NoRate
    /\ current_day' = 0
    /\ current_hour' = 0
    /\ ticks' = 0
    /\ sel_epoch' = 0
    /\ tick_epoch' = 0
    /\ tick_delta' = NoDelta
    /\ load_outcome' = <<"none", "none">>
    /\ UNCHANGED fileVars

\* sessions that are started, exited and started again
NextRestart == Startup \/ CleanExit \/ Restart

SpecRestart == InitRestart /\ [][NextRestart]_vars

(* ------------------------------ claims --------------------------------- *)

\* how a reader of data_usage.csv sees a row on the day clock_day
RowDate(row) == StrToDate(row.Date)

RowForToday(row) == RowDate(row).ok /\ RowDate(row).val = clock_day

ParsableToday(row) ==
    /\ RowForToday(row)
    /\ StrToInt(row.DownloadBytes).ok
    /\ StrToInt(row.UploadBytes).ok

\* a row the loader cannot parse: its date is no date, or it is dated today
\* and a byte field is no integer
UnparsableRow(row) ==
    \/ ~RowDate(row).ok
    \/ RowForToday(row) /\ ~ParsableToday(row)

\* the daily file gives no record for today: it is missing or unreadable, an
\* unparsable row comes before any row for today, or every row is a record
\* of another date
NoRecordForToday ==
    LET rows == daily_file.rows
    IN  \/ ~daily_file.exists
        \/ load_outcome[1] = "io_error"
        \/ \E j \in 1..Len(rows) :
              /\ UnparsableRow(rows[j])
              /\ \A k \in 1..(j - 1) : ~ParsableToday(rows[k])
        \/ \A j \in 1..Len(rows) :
              RowDate(rows[j]).ok /\ RowDate(rows[j]).val # clock_day

\* row i is the record for today: parsable, dated today, with no unparsable
\* row and no other record for today before it
RecordForToday(i) ==
    LET rows == daily_file.rows
    IN  /\ daily_file.exists
        /\ load_outcome[1] = "ok"
        /\ i \in 1..Len(rows)
        /\ ParsableToday(rows[i])
        /\ \A k \in 1..(i - 1) :
              ~UnparsableRow(rows[k]) /\ ~ParsableToday(rows[k])

\* C7: after load_daily_data, a missing file, an unparsable row before any
\* row for today, or only records of other dates leave both daily totals 0
\* and the last-seen date today; a parsable row for today leaves the totals
\* at that row's values.
C7_StartupLoadsToday ==
    phase = "on" =>
        /\ last_data_update_day = clock_day
        /\ NoRecordForToday =>
              daily_download_bytes = 0 /\ daily_upload_bytes = 0
        /\ \A i \in 1..Len(daily_file.rows) :
              RecordForToday(i) =>
                 /\ daily_download_bytes
                        = StrToInt(daily_file.rows[i].DownloadBytes).val
                 /\ daily_upload_bytes
                        = StrToInt(daily_file.rows[i].UploadBytes).val

\* C7 witness: the totals were loaded from the second row of a file whose
\* first row is a record of another date.
C7_Witness ==
    /\ phase = "on"
    /\ RecordForToday(2)
    /\ daily_download_bytes > 0
    /\ daily_upload_bytes > 0

\* C8: whenever startup finds no daily record for today, every bucket of the
\* in-memory hourly table is zero after startup, whatever the hourly file
\* holds.
C8_HourlyStartsAtZero ==
    (phase = "on" /\ NoRecordForToday) =>
        \A h \in Hours : hourly_data[h] = [download |-> 0, upload |-> 0]

(* -------------------------- claims: sampler ---------------------------- *)

\* the step in which the sampler accumulates and enqueues
AccumulateStep == pc_s = "accumulate" /\ pc_s' = "loop"

\* the sample that step enqueues
Enqueued == speed_queue'[Len(speed_queue')]

\* the save attempts of the sampler thread, in order
SamplerLog(log) == SelectSeq(log, LAMBDA e : e.by = "sampler")

\* the file holds a record of day `day` with the totals down and up
HoldsRecord(file, day, down, up) ==
    /\ file.exists
    /\ \E i \in 1..Len(file.rows) :
          /\ StrToDate(file.rows[i].Date) = Parsed(day)
          /\ StrToInt(file.rows[i].DownloadBytes) = Parsed(down)
          /\ StrToInt(file.rows[i].UploadBytes) = Parsed(up)

\* C1: in every tick, a received or sent counter lower than the previous
\* snapshot gives a delta of zero: the enqueued rates and the bytes added to
\* the daily totals and to the hour's bucket are never negative.
C1_NegativeDeltaClamped ==
    [][AccumulateStep =>
          /\ RatGeq0(Enqueued.down)
          /\ RatGeq0(Enqueued.up)
          /\ daily_download_bytes' >= daily_download_bytes
          /\ daily_upload_bytes' >= daily_upload_bytes
          /\ hourly_data'[current_hour].download
                >= hourly_data[current_hour].download
          /\ hourly_data'[current_hour].upload
                >= hourly_data[current_hour].upload
          /\ tick_delta.recv < 0 =>
                /\ Enqueued.down.num = 0
                /\ daily_download_bytes' = daily_download_bytes
          /\ tick_delta.sent < 0 =>
                /\ Enqueued.up.num = 0
                /\ daily_upload_bytes' = daily_upload_bytes]_vars

\* what a step of a tick does to the day's totals and to the daily file
RolloverStep ==
    /\ (pc_s = "read" /\ pc_s' \in {"rollover", "accumulate"}) =>
          /\ (pc_s' = "rollover") <=> (current_day' # last_data_update_day)
          /\ UNCHANGED <<aggVars, fileVars>>
    /\ (pc_s = "rollover" /\ pc_s' # pc_s) =>
          /\ pc_s' = "reset_totals"
          /\ Len(write_log') = Len(write_log) + 1
          /\ LET e == write_log'[Len(write_log')]
             IN  /\ e.by = "sampler"
                 /\ e.file = "daily"
                 /\ e.tick = ticks
                 /\ Len(e.rows) = 1
                 /\ HoldsRecord(File(e.rows), last_data_update_day,
                                daily_download_bytes, daily_upload_bytes)
                 /\ e.outcome = "ok" => daily_file' = File(e.rows)
          /\ UNCHANGED aggVars
    /\ (pc_s = "reset_totals" /\ pc_s' # pc_s) =>
          /\ pc_s' = "reset_day"
          /\ daily_download_bytes' = 0
          /\ daily_upload_bytes' = 0
          /\ UNCHANGED fileVars
    /\ (pc_s = "reset_day" /\ pc_s' # pc_s) =>
          /\ pc_s' = "accumulate"
          /\ daily_download_bytes' = 0
          /\ daily_upload_bytes' = 0
          /\ last_data_update_day' = current_day
          /\ UNCHANGED fileVars
    /\ AccumulateStep =>
          /\ last_data_update_day = current_day
          /\ UNCHANGED <<last_data_update_day, fileVars>>
    /\ SamplerLog(write_log') # SamplerLog(write_log) => pc_s = "rollover"
    /\ \A i, j \in 1..Len(SamplerLog(write_log')) :
          SamplerLog(write_log')[i].tick = SamplerLog(write_log')[j].tick
              => i = j

\* C2: the first tick whose date differs from the last-seen date writes the
\* daily file exactly once, with day D's date and day D's totals, then
\* resets both totals to zero, and only then adds the tick's bytes; a tick
\* on the last-seen date writes and resets nothing.
C2_RolloverWritesOnceThenResets == [][RolloverStep]_vars

\* C2 witness: tick 1 rolled over to day 1 with its one write, and tick 2,
\* on day 1, has added bytes to the new day without another write.
C2_Witness ==
    /\ ticks = 2
    /\ pc_s = "loop"
    /\ last_data_update_day = 1
    /\ Len(SamplerLog(write_log)) = 1
    /\ SamplerLog(write_log)[1].tick = 1
    /\ daily_download_bytes > 0

\* C3: in every rollover tick the hourly table, as it stood at the end of
\* day D, is written to the hourly file before the table is cleared.
C3_HourlySavedBeforeClear ==
    pc_s = "reset_day" =>
        \E i \in 1..Len(write_log) :
            /\ write_log[i].by = "sampler"
            /\ write_log[i].file = "hourly"
            /\ write_log[i].tick = ticks
            /\ write_log[i].rows = HourlyRows(hourly_data)

\* C4: whenever a rollover from a day D that has usage resets the daily
\* totals, the daily file holds a record of day D with the totals as they
\* were before the reset, whatever the outcome of the write.
C4_NoUsageLostOnRollover ==
    [][(/\ pc_s = "reset_totals"
        /\ pc_s' = "reset_day"
        /\ daily_download_bytes + daily_upload_bytes > 0) =>
          HoldsRecord(daily_file', last_data_update_day,
                      daily_download_bytes, daily_upload_bytes)]_vars

\* C5: for every update interval, a tick whose counter delta is not
\* negative adds exactly that delta to the daily total, for download and
\* for upload (so ticks summing to B add exactly B).
C5_DailyAccumulationExact ==
    [][AccumulateStep =>
          /\ tick_delta.recv >= 0 =>
                daily_download_bytes' = daily_download_bytes + tick_delta.recv
          /\ tick_delta.sent >= 0 =>
                daily_upload_bytes' = daily_upload_bytes + tick_delta.sent]_vars

\* (new.bytes - old.bytes) / 1024 / intervalSeconds
ClaimedRate(delta, ms) == RatDiv(Rat(delta, KB), Rat(ms, MsPerSecond))

\* C6: for counters that did not fall and every update interval, the rate
\* enqueued by the tick is (new.bytes - old.bytes) / 1024 / intervalSeconds
\* and is not negative, for download and for upload.
C6_RateIsDeltaPerSecond ==
    [][AccumulateStep =>
          /\ tick_delta.recv >= 0 =>
                /\ RatEq(Enqueued.down,
                         ClaimedRate(tick_delta.recv, update_interval))
                /\ RatGeq0(Enqueued.down)
          /\ tick_delta.sent >= 0 =>
                /\ RatEq(Enqueued.up,
                         ClaimedRate(tick_delta.sent, update_interval))
                /\ RatGeq0(Enqueued.up)]_vars

\* C9: a counter read that fails in a tick does not end the sampler: the
\* thread is never dead after a tick has begun, and it has returned only
\* when the running flag is clear.
C9_ReadFailureNotFatal ==
    /\ ticks > 0 => pc_s # "dead"
    /\ pc_s = "done" => ~running

\* C10: after another adapter is selected the rate deques hold no sample
\* whose counters were read before the selection changed.
C10_NoOldAdapterRates ==
    /\ \A i \in 1..Len(download_data) : download_data[i].epoch = sel_epoch
    /\ \A i \in 1..Len(upload_data) : upload_data[i].epoch = sel_epoch

(* ------------------------ claims: durability --------------------------- *)

\* what a start on day `day` would recover from the daily file
Recoverable(file, day) ==
    IF file.exists THEN ScanDaily(file.rows, day) ELSE NotFound

\* C11: when a running session has finished a tick, the part of today's
\* in-memory daily totals that a start after an abrupt end would not
\* recover from the daily file is at most the bytes that tick added.
C11_CrashLossBoundedByOneInterval ==
    [][(AccumulateStep /\ tick_delta.recv >= 0 /\ tick_delta.sent >= 0) =>
          LET saved == Recoverable(daily_file', last_data_update_day')
          IN  /\ daily_download_bytes' - saved.down
                    <= daily_download_bytes' - daily_download_bytes
              /\ daily_upload_bytes' - saved.up
                    <= daily_upload_bytes' - daily_upload_bytes]_vars

(* -------------------------- claims: adapters --------------------------- *)

\* the step of the baseline read, and the step of a tick's read
BaselineStep == pc_s = "init" /\ pc_s' = "loop"

ReadStep == pc_s = "read" /\ pc_s' \in {"rollover", "accumulate"}

\* C12: in the baseline read and in every tick's read, a selected adapter
\* other than "All" that the per-adapter table does not hold makes the
\* sampler take the aggregate counters of all adapters; the read ends
\* without an error and the sampler goes on.
C12_AbsentAdapterReadsAggregate ==
    [][(BaselineStep \/ ReadStep) =>
          /\ old_stats'.miss <=>
                (selected_adapter # "All" /\ old_stats'.src # selected_adapter)
          /\ old_stats'.miss => old_stats'.src = "All"
          /\ ~old_stats'.miss => old_stats'.src = selected_adapter]_vars

\* C12 witness: with "eth0" selected and absent, the second tick was read
\* from the aggregate and the sampler is back at the head of its loop.
C12_Witness ==
    /\ selected_adapter = "eth0"
    /\ old_stats.miss
    /\ old_stats.src = "All"
    /\ ticks = 2
    /\ pc_s = "loop"

(* -------------------------- claims: shutdown --------------------------- *)

\* the save attempts of clean_exit, in order
ExitLog(log) == SelectSeq(log, LAMBDA e : e.by = "exit")

\* what a step of clean_exit does
CleanExitStep ==
    /\ pc_exit' # "idle" => ~running'
    /\ (pc_exit = "idle" /\ pc_exit' # pc_exit) =>
          pc_exit' = "save_daily" /\ write_log' = write_log
    /\ (pc_exit = "save_daily" /\ pc_exit' # pc_exit) =>
          /\ pc_exit' = "save_hourly"
          /\ Len(write_log') = Len(write_log) + 1
          /\ LET e == write_log'[Len(write_log')]
             IN  /\ e.by = "exit"
                 /\ e.file = "daily"
                 /\ e.rows = <<DailyRow(last_data_update_day,
                                        daily_download_bytes,
                                        daily_upload_bytes)>>
                 /\ e.outcome = "ok" => daily_file' = File(e.rows)
    /\ (pc_exit = "save_hourly" /\ pc_exit' # pc_exit) =>
          /\ pc_exit' = "destroy"
          /\ Len(write_log') = Len(write_log) + 1
          /\ LET e == write_log'[Len(write_log')]
             IN  /\ e.by = "exit"
                 /\ e.file = "hourly"
                 /\ e.rows = HourlyRows(hourly_data)
                 /\ e.outcome = "ok" => hourly_file' = File(e.rows)
    /\ (pc_exit = "destroy" /\ pc_exit' # pc_exit) => pc_exit' = "exited"
    /\ phase' = "exited" =>
          /\ pc_exit' = "exited"
          /\ Len(ExitLog(write_log')) = 2
          /\ ExitLog(write_log')[1].file = "daily"
          /\ ExitLog(write_log')[2].file = "hourly"

\* C13: clean_exit clears the running flag first, then attempts the daily
\* save and then the hourly save, each with the totals in memory at that
\* moment, and the process ends only after both saves were attempted.
C13_ExitSavesBeforeTerminating == [][CleanExitStep]_vars

\* C13 witness: the process has ended after a tick, and the daily file
\* holds the record clean_exit wrote.
C13_Witness ==
    /\ phase = "exited"
    /\ ticks > 0
    /\ daily_download_bytes > 0
    /\ ExitLog(write_log)[1].outcome = "ok"
    /\ daily_file = File(ExitLog(write_log)[1].rows)

(* --------------------- claims: persistence failure --------------------- *)

\* C14: a load that fails with an I/O error leaves the daily totals, the
\* last-seen date and the hourly table as they were before the call (zero,
\* today, all buckets zero, as setup_variables left them).
C14_FailedLoadLeavesMemory ==
    (phase = "on" /\ load_outcome[1] = "io_error") =>
        /\ daily_download_bytes = 0
        /\ daily_upload_bytes = 0
        /\ last_data_update_day = clock_day
        /\ hourly_data = EmptyHourly

(* ------------------------ claims: rate buffer -------------------------- *)

\* the step of a refresh that finds samples in the queue
RefreshStep == speed_queue # <<>> /\ speed_queue' = <<>>

\* the last n elements of a sequence, or all of it
LastN(seq, n) ==
    IF Len(seq) <= n THEN seq ELSE SubSeq(seq, Len(seq) - n + 1, Len(seq))

DownPoints(queue) ==
    [i \in 1..Len(queue) |-> Point(queue[i].down, queue[i].epoch)]

UpPoints(queue) ==
    [i \in 1..Len(queue) |-> Point(queue[i].up, queue[i].epoch)]

\* C15: each rate deque never holds more than its capacity of 50, and a
\* refresh leaves in it the most recent 50 of its old content followed by
\* the pushed samples, in insertion order, so that the push after the 50th
\* drops the first one.
C15_DequeBoundedFifo ==
    /\ [](Len(download_data) <= DequeMaxLen /\ Len(upload_data) <= DequeMaxLen)
    /\ [][RefreshStep =>
            /\ download_data'
                  = LastN(download_data \o DownPoints(speed_queue), DequeMaxLen)
            /\ upload_data'
                  = LastN(upload_data \o UpPoints(speed_queue), DequeMaxLen)]_vars

\* C15 witness: a refresh has pushed the 51st sample since the last clear:
\* the first is gone and the deque holds the second to the 51st.
C15_Witness ==
    /\ speed_queue = <<>>
    /\ Len(download_data) = DequeMaxLen
    /\ download_data[1] = Point(NthSample(2).down, 0)
    /\ download_data[DequeMaxLen] = Point(NthSample(DequeMaxLen + 1).down, 0)
    /\ \A i \in 1..DequeMaxLen : download_data[i] # Point(NthSample(1).down, 0)

(* ------------------------- claims: hand-off ---------------------------- *)

\* what a step does to the queue and to the deques
HandOffStep ==
    /\ AccumulateStep =>
          speed_queue' = Append(speed_queue,
                                Sample(down_kbps, up_kbps, tick_epoch))
    /\ speed_queue' # speed_queue =>
          \/ AccumulateStep
          \/ /\ speed_queue' = <<>>
             /\ download_data'
                   = LastN(download_data \o DownPoints(speed_queue),
                           DequeMaxLen)
             /\ upload_data'
                   = LastN(upload_data \o UpPoints(speed_queue), DequeMaxLen)
    /\ (download_data' # download_data \/ upload_data' # upload_data) =>
          \/ speed_queue # <<>> /\ speed_queue' = <<>>
          \/ download_data' = <<>> /\ upload_data' = <<>>

\* C16: under every interleaving of ticks and refreshes each sample is put
\* at the tail of the queue, leaves the queue only in a refresh that
\* appends it once, in order, to the deques, and nothing else appends; the
\* enqueue is possible whatever the queue holds, and a refresh is possible
\* on an empty queue and empties a queue that is not.
C16_QueueHandOff ==
    /\ []((phase = "on" /\ pc_s = "accumulate") => ENABLED SamplerAccumulate)
    /\ [](phase = "on" => ENABLED UpdateLabels)
    /\ [][HandOffStep]_vars

\* C16 witness: two ticks were queued before a refresh, which appended
\* both, the first first.
C16_Witness ==
    /\ ticks = 2
    /\ speed_queue = <<>>
    /\ Len(download_data) = 2
    /\ Len(upload_data) = 2
    /\ upload_data[1].kbps.num = 2
    /\ upload_data[2].kbps.num = -1

(* ------------------------- claims: round trip -------------------------- *)

\* the daily save attempts, in order
DailyLog(log) == SelectSeq(log, LAMBDA e : e.file = "daily")

\* the last daily save
LastDailySave == DailyLog(write_log)[Len(DailyLog(write_log))]

\* C17: when save_daily_data has written totals (d, u) that are not
\* negative under today's date with no write failure, load_daily_data on
\* that day leaves the daily totals exactly (d, u) and the last-seen date
\* today.
C17_DailyRoundTrip ==
    (/\ phase = "on"
     /\ load_outcome[1] = "ok"
     /\ DailyLog(write_log) # <<>>
     /\ LastDailySave.outcome = "ok"
     /\ LastDailySave.mem.day = clock_day
     /\ LastDailySave.mem.down >= 0
     /\ LastDailySave.mem.up >= 0) =>
        /\ daily_download_bytes = LastDailySave.mem.down
        /\ daily_upload_bytes = LastDailySave.mem.up
        /\ last_data_update_day = clock_day

\* C17 witness: a session that was started on the file the session before
\* wrote holds the totals (12, 10) of that session.
C17_Witness ==
    /\ phase = "on"
    /\ pc_exit = "idle"
    /\ load_outcome[1] = "ok"
    /\ Len(DailyLog(write_log)) = 1
    /\ LastDailySave.outcome = "ok"
    /\ LastDailySave.mem = [day |-> clock_day, down |-> 12, up |-> 10]
    /\ daily_download_bytes = 12
    /\ daily_upload_bytes = 10

(* ----------------------- claims: configuration ------------------------- *)

\* C18: the update interval is within 100..5000 ms in every state,
\* whichever of the entry field and the slider set it, and an entry text
\* that is no integer or an integer outside the range leaves the interval
\* as it was.
C18_IntervalStaysInRange ==
    /\ MinInterval <= update_interval
    /\ update_interval <= MaxInterval
    /\ \A text \in InvalidEntryTexts :
          IntervalFromEntry(text, update_interval) = update_interval
    /\ \A v \in IntervalChoices :
          IntervalFromEntry(IntToStr(v), update_interval) = v

\* C18 witness: a configuration path has set an interval other than the
\* initial one, and the sampler has ticked with it.
C18_Witness ==
    /\ update_interval # DefaultInterval
    /\ update_interval \in IntervalChoices
    /\ ticks > 0
    /\ pc_s = "loop"

(* ----------------------- claims: hourly buckets ------------------------ *)

\* int(delta * interval / 1000): the bytes of a tick's interval
IntervalBytesOf(delta, ms) == TruncDiv(delta * ms, MsPerSecond)

\* what a step does to the hourly table
BucketStep ==
    /\ AccumulateStep =>
          LET db == IntervalBytesOf(tick_delta.recv, update_interval)
              ub == IntervalBytesOf(tick_delta.sent, update_interval)
          IN  /\ current_hour = clock_hour
              /\ current_hour \in Hours
              /\ daily_download_bytes' = daily_download_bytes + db
              /\ daily_upload_bytes' = daily_upload_bytes + ub
              /\ hourly_data'[current_hour] =
                    [download |-> hourly_data[current_hour].download + db,
                     upload |-> hourly_data[current_hour].upload + ub]
              /\ \A h \in Hours \ {current_hour} :
                    hourly_data'[h] = hourly_data[h]
    /\ hourly_data' # hourly_data =>
          \/ AccumulateStep
          \/ pc_s = "reset_day" /\ pc_s' = "accumulate"

\* C19: each tick adds its interval bytes to the daily totals and to the
\* hourly bucket of the hour of the tick's timestamp, and leaves every
\* other bucket as it was; only a rollover tick changes other buckets.
C19_BytesGoToTheHoursBucket == [][BucketStep]_vars

\* C19 witness: on one day a tick at hour 0 and a tick at hour 1 have each
\* added bytes to their own bucket.
C19_Witness ==
    /\ pc_s = "loop"
    /\ ticks = 2
    /\ clock_day = 0
    /\ clock_hour = 1
    /\ hourly_data[0].download > 0
    /\ hourly_data[1].download > 0
    /\ daily_download_bytes
          = hourly_data[0].download + hourly_data[1].download

(* ----------------------- claims: daily file shape ---------------------- *)

\* the step of a daily save that succeeded
DailySavedStep ==
    /\ Len(DailyLog(write_log')) = Len(DailyLog(write_log)) + 1
    /\ DailyLog(write_log')[Len(DailyLog(write_log'))].outcome = "ok"

\* C20: after every successful save_daily_data the daily file holds
\* exactly one record, dated the last-seen date, with the daily totals in
\* memory; no record the file held before is left.
C20_DailyFileHoldsOneRecord ==
    [][DailySavedStep =>
          /\ daily_file'.exists
          /\ Len(daily_file'.rows) = 1
          /\ HoldsRecord(daily_file', last_data_update_day,
                         daily_download_bytes, daily_upload_bytes)]_vars

\* C20 witness: a save on day 1 over a file of older records has left the
\* one record of day 1.
C20_Witness ==
    /\ pc_exit = "save_hourly"
    /\ last_data_update_day = 1
    /\ LastDailySave.outcome = "ok"
    /\ daily_download_bytes > 0
    /\ daily_file = File(<<DailyRow(1, daily_download_bytes,
                                     daily_upload_bytes)>>)

(* -------------------- claims: one-second interval ---------------------- *)

\* C21: with the update interval at 1000 ms, every tick whose byte deltas
\* (d, u) are not negative enqueues the sample (d / 1024, u / 1024) and
\* adds exactly d to the daily download total and u to the daily upload
\* total, so that n such ticks within a day add the sum of their deltas.
C21_OneSecondTicksAddTheirDeltas ==
    [][(/\ AccumulateStep
        /\ update_interval = DefaultInterval
        /\ tick_delta.recv >= 0
        /\ tick_delta.sent >= 0) =>
          /\ RatEq(Enqueued.down, Rat(tick_delta.recv, KB))
          /\ RatEq(Enqueued.up, Rat(tick_delta.sent, KB))
          /\ daily_download_bytes' = daily_download_bytes + tick_delta.recv
          /\ daily_upload_bytes' = daily_upload_bytes + tick_delta.sent]_vars

\* C21 witness: two ticks of one second on one day, with deltas (1, 2) and
\* (0, 0) and nothing else happening, have queued their two samples and
\* left daily totals of 1 and 2.
C21_Witness ==
    /\ ticks = 2
    /\ pc_s = "loop"
    /\ events = 0
    /\ update_interval = DefaultInterval
    /\ Len(speed_queue) = 2
    /\ speed_queue[1].down = Rat(1, KB)
    /\ speed_queue[1].up = Rat(2, KB)
    /\ speed_queue[2].down = Rat(0, KB)
    /\ daily_download_bytes = 1
    /\ daily_upload_bytes = 2

(* ------------------------ claims: single writer ------------------------ *)

\* a step of the sampler thread that writes the aggregator
SamplerWriteStep ==
    /\ pc_s \in {"reset_totals", "reset_day", "accumulate"}
    /\ pc_s' # pc_s

\* C22: once the sampler thread has been started, the daily totals, the
\* last-seen date and the hourly buckets change in steps of the sampler's
\* ticks only: no refresh, adapter selection, interval change or save
\* changes them.
C22_OnlyTheSamplerWritesTotals ==
    [][(phase = "on" /\ aggVars' # aggVars) =>
          /\ SamplerWriteStep
          /\ UNCHANGED <<uiVars, speed_queue>> \/ AccumulateStep]_vars

\* C22 witness: after a tick had added bytes, another adapter was chosen,
\* the interval was changed and a refresh ran, and the totals stand.
C22_Witness ==
    /\ selected_adapter = "eth0"
    /\ update_interval # DefaultInterval
    /\ speed_queue = <<>>
    /\ Len(download_data) > 0
    /\ daily_download_bytes > 0
    /\ daily_upload_bytes > 0
    /\ hourly_data[0].download = daily_download_bytes
    /\ pc_s = "loop"

(* ---------------------- claims: sampler shutdown ----------------------- *)

\* the sampler thread has ended, by itself or with the process
SamplerEnded == pc_s \in {"done", "dead"} \/ phase = "exited"

\* C23: once the running flag is clear it stays clear; the sampler begins
\* a sleep only on a flag it saw set, so that after the flag was cleared
\* it finishes at most the tick it was in, begins no other from the head
\* of its loop, and ends.
C23_SamplerStopsAfterFlagCleared ==
    /\ [][~running => ~running']_vars
    /\ [][(pc_s = "loop" /\ pc_s' = "read") => running]_vars
    /\ [][(~running /\ pc_s = "loop") => pc_s' \in {"loop", "done"}]_vars
    /\ ~running ~> SamplerEnded

\* C23 witness: the sampler has returned after finishing the tick it was
\* in when clean_exit cleared the flag and saved: the totals in memory are
\* above the totals of that save.
C23_Witness ==
    /\ phase = "on"
    /\ ~running
    /\ pc_s = "done"
    /\ Len(ExitLog(write_log)) > 0
    /\ ExitLog(write_log)[1].mem.down < daily_download_bytes

(* ----------------------- claims: counter source ------------------------ *)

\* C24: the two snapshots whose difference a tick turns into a sample and
\* into bytes were read from the same counter source: the aggregate both
\* times, or the same adapter both times.
C24_DeltaOfOneSource ==
    [][(ReadStep /\ tick_delta' # NoDelta) =>
          old_stats'.src = old_stats.src]_vars

(* --------------------- claims: shutdown and rollover ------------------- *)

\* a rollover has saved the last-seen date's record and has not yet advanced
\* the date: the totals in memory are about to be, or have been, zeroed
RolloverInProgress == pc_s \in {"reset_totals", "reset_day"}

\* C25: however clean_exit interleaves with a tick that is rolling the day
\* over, a daily record that reaches the file pairs the last-seen date with
\* the totals of that date: it never puts the zeroed totals in place of the
\* record the rollover has just saved for that date.
C25_SavedRecordIsOfItsDay ==
    [][(DailySavedStep /\ RolloverInProgress
          /\ Recoverable(daily_file, last_data_update_day).found) =>
          /\ Recoverable(daily_file', last_data_update_day).down
                = Recoverable(daily_file, last_data_update_day).down
          /\ Recoverable(daily_file', last_data_update_day).up
                = Recoverable(daily_file, last_data_update_day).up]_vars

(* --------------------- claims: hourly and daily sums ------------------- *)

\* f[lo] + ... + f[hi]
RECURSIVE SumRange(_, _, _)
SumRange(f, lo, hi) ==
    IF lo = hi THEN f[lo]
    ELSE LET mid == (lo + hi) \div 2
         IN  SumRange(f, lo, mid) + SumRange(f, mid + 1, hi)

\* the sums of the 24 hourly buckets
HourlyDownloadSum(hourly) ==
    SumRange([h \in Hours |-> hourly[h].download], 0, NumHours - 1)

HourlyUploadSum(hourly) ==
    SumRange([h \in Hours |-> hourly[h].upload], 0, NumHours - 1)

\* the sampler is between two ticks, or has ended after one
TickFinished == phase = "on" /\ pc_s \in {"loop", "done"}

\* C26: in a session started with no file on disk, whenever the sampler has
\* finished a tick, through day rollovers and hour changes, the 24 hourly
\* download buckets add up to the daily download total, and the upload
\* buckets to the daily upload total.
C26_HourlySumsEqualDailyTotals ==
    TickFinished =>
        /\ HourlyDownloadSum(hourly_data) = daily_download_bytes
        /\ HourlyUploadSum(hourly_data) = daily_upload_bytes

\* two ticks done: the first added bytes to the first day, the second
\* rolled the day over, saved those bytes and added bytes to the new day
C26_Witness ==
    /\ TickFinished
    /\ ticks = 2
    /\ last_data_update_day = 1
    /\ daily_download_bytes > 0
    /\ Len(SamplerLog(write_log)) = 1
    /\ SamplerLog(write_log)[1].mem.day = 0
    /\ SamplerLog(write_log)[1].mem.down > 0

(* ------------------- claims: hourly table over restarts ---------------- *)

\* the hourly save attempts, in order, and the last of them
HourlyLog(log) == SelectSeq(log, LAMBDA e : e.file = "hourly")

LastHourlySave == HourlyLog(write_log)[Len(HourlyLog(write_log))]

\* C27: a session started on the calendar day on which the session before
\* it shut down cleanly, both files written, holds after startup the
\* hourly table that shutdown saved, as it holds the saved daily totals.
C27_HourlyRoundTrip ==
    (/\ phase = "on"
     /\ pc_exit = "idle"
     /\ load_outcome[1] = "ok"
     /\ DailyLog(write_log) # <<>>
     /\ LastDailySave.outcome = "ok"
     /\ LastDailySave.mem.day = clock_day
     /\ HourlyLog(write_log) # <<>>
     /\ LastHourlySave.outcome = "ok") =>
        HourlyRows(hourly_data) = LastHourlySave.rows
====
